---- MODULE Spec2Model ----
(***************************************************************************)
(* Model of .github/scripts/code-analyzer.py: the issue model, the two     *)
(* pattern detectors (scan_python, scan_javascript), the two linter        *)
(* adapters (run_linters), the aggregator (analyze) and the result sink    *)
(* (main).                                                                 *)
(*                                                                         *)
(* File content is a sequence of tokens.  A token stands for a literal     *)
(* piece of text (TokText below gives its length in characters); "NL" is   *)
(* the newline character, "NUL" the character U+0000, "deep" the text of   *)
(* 200000 minus signs followed by the digit 1.  The regular expressions of *)
(* the source are evaluated token by token.                                *)
(***************************************************************************)
EXTENDS Integers, Sequences, FiniteSets, TLC

(***************************************************************************)
(* Bounds of the model.                                                    *)
(***************************************************************************)
MaxPyFiles == 2
MaxJsFiles == 2
MaxRuns == 2
MaxLen == 5
MaxLines == 3

(***************************************************************************)
(* Optional values: None is the empty tuple, a present value v is <<v>>.   *)
(* Optional strings use the string "None".                                 *)
(***************************************************************************)
None == <<>>
Some(v) == <<v>>
NoneStr == "None"

\* Python's `v or d` for an Optional[int]: None and 0 are both falsy.
OrDefault(opt, d) == IF opt = None THEN d ELSE IF opt[1] = 0 THEN d ELSE opt[1]

(***************************************************************************)
(* Severity and IssueType enumerations, with their wire strings (.value).  *)
(***************************************************************************)
Severity == {"CRITICAL", "HIGH", "MEDIUM", "LOW", "INFO"}

SeverityValue(s) ==
    CASE s = "CRITICAL" -> "critical"
      [] s = "HIGH"     -> "high"
      [] s = "MEDIUM"   -> "medium"
      [] s = "LOW"      -> "low"
      [] s = "INFO"     -> "info"

IssueType == {"SYNTAX_ERROR", "LINTING_ERROR", "SECURITY_VULNERABILITY",
              "CODE_SMELL", "DEPRECATED_USAGE", "PERFORMANCE_ISSUE",
              "STYLE_VIOLATION", "TYPE_ERROR", "UNUSED_CODE", "IMPORT_ERROR"}

IssueTypeValue(t) ==
    CASE t = "SYNTAX_ERROR"           -> "syntax_error"
      [] t = "LINTING_ERROR"          -> "linting_error"
      [] t = "SECURITY_VULNERABILITY" -> "security_vulnerability"
      [] t = "CODE_SMELL"             -> "code_smell"
      [] t = "DEPRECATED_USAGE"       -> "deprecated_usage"
      [] t = "PERFORMANCE_ISSUE"      -> "performance_issue"
      [] t = "STYLE_VIOLATION"        -> "style_violation"
      [] t = "TYPE_ERROR"             -> "type_error"
      [] t = "UNUSED_CODE"            -> "unused_code"
      [] t = "IMPORT_ERROR"           -> "import_error"

\* CodeIssue(...): rule_id and suggestion default to None, fixable to False.
CodeIssue(file, line, column, severity, issue_type, message, rule_id, suggestion, fixable) ==
    [file |-> file, line |-> line, column |-> column, severity |-> severity,
     issue_type |-> issue_type, message |-> message, rule_id |-> rule_id,
     suggestion |-> suggestion, fixable |-> fixable]

\* CodeIssue.to_dict
IssueToDict(i) ==
    [file |-> i.file, line |-> i.line, column |-> i.column,
     severity |-> SeverityValue(i.severity), type |-> IssueTypeValue(i.issue_type),
     message |-> i.message, rule_id |-> i.rule_id, suggestion |-> i.suggestion,
     fixable |-> i.fixable]

(***************************************************************************)
(* Sequence helpers.                                                       *)
(***************************************************************************)
RECURSIVE Concat(_)
Concat(ss) == IF ss = <<>> THEN <<>> ELSE Head(ss) \o Concat(Tail(ss))

(***************************************************************************)
(* Text: tokens, their length in characters, and the character classes     *)
(* the regular expressions use.                                            *)
(***************************************************************************)
TokText(t) ==
    CASE t = "print"       -> 5   \* print
      [] t = "eval"        -> 4   \* eval
      [] t = "exec"        -> 4   \* exec
      [] t = "environ"     -> 15  \* os.environ["K"]
      [] t = "pickle"      -> 11  \* pickle.load
      [] t = "yaml"        -> 9   \* yaml.load
      [] t = "password"    -> 8   \* password
      [] t = "secret"      -> 6   \* secret
      [] t = "api_key"     -> 7   \* api_key
      [] t = "var"         -> 3   \* var
      [] t = "console.log" -> 11  \* console.log
      [] t = "deep"        -> 200001  \* 200000 times - and then 1
      [] OTHER             -> 1   \* ( ) _ x = ! space NL NUL

\* \s
IsSpace(t) == t \in {" ", "NL"}
\* tokens made of \w characters only
IsWord(t) == t \in {"print", "eval", "exec", "password", "secret", "api_key",
                    "var", "_", "x"}

\* str.split('\n')
RECURSIVE SplitLines(_)
SplitLines(content) ==
    IF \A k \in 1..Len(content) : content[k] # "NL" THEN <<content>>
    ELSE LET p == CHOOSE k \in 1..Len(content) :
                      content[k] = "NL" /\ \A j \in 1..(k - 1) : content[j] # "NL"
         IN  <<SubSeq(content, 1, p - 1)>> \o SplitLines(SubSeq(content, p + 1, Len(content)))

\* str.strip()
RECURSIVE Strip(_)
Strip(line) ==
    IF line = <<>> THEN line
    ELSE IF IsSpace(Head(line)) THEN Strip(Tail(line))
    ELSE IF IsSpace(line[Len(line)]) THEN Strip(SubSeq(line, 1, Len(line) - 1))
    ELSE line

\* character offset of token position k in a line
RECURSIVE CharOffset(_, _)
CharOffset(line, k) == IF k <= 1 THEN 0 ELSE CharOffset(line, k - 1) + TokText(line[k - 1])

\* str.find(tok) for a token: character offset of its first occurrence, -1 if absent
Find(line, tok) ==
    IF \E k \in 1..Len(line) : line[k] = tok
    THEN CharOffset(line, CHOOSE k \in 1..Len(line) :
                              line[k] = tok /\ \A j \in 1..(k - 1) : line[j] # tok)
    ELSE -1

\* str.find('==')
FindEqEq(line) ==
    IF \E k \in 1..(Len(line) - 1) : line[k] = "=" /\ line[k + 1] = "="
    THEN CharOffset(line, CHOOSE k \in 1..(Len(line) - 1) :
                              /\ line[k] = "=" /\ line[k + 1] = "="
                              /\ \A j \in 1..(k - 1) : ~(line[j] = "=" /\ line[j + 1] = "="))
    ELSE -1

\* the text s[from..] starts with zero or more \s followed by token `last`
RECURSIVE SpacesThen(_, _, _)
SpacesThen(s, from, last) ==
    /\ from <= Len(s)
    /\ \/ s[from] = last
       \/ IsSpace(s[from]) /\ SpacesThen(s, from + 1, last)

\* re.search of  head\s*last  (last = NoneStr: the pattern is the literal head)
SearchHeadTail(s, head, last) ==
    \E k \in 1..Len(s) :
        /\ s[k] = head
        /\ last # NoneStr => SpacesThen(s, k + 1, last)

\* the first / last character of the token's text is a \w character
StartsWithWordChar(t) == (TokText(t) > 1 /\ t # "deep") \/ t \in {"_", "x"}
EndsWithWordChar(t) == (StartsWithWordChar(t) /\ t # "environ") \/ t = "deep"

(***************************************************************************)
(* A source file of the tree: its path, whether read_text succeeds, its    *)
(* content, and (Python files) what ast.parse does with the content:       *)
(* kind "ok", kind "syntax" (SyntaxError with lineno, offset, msg) or kind *)
(* "error" (another exception, e.g. MemoryError for too deep nesting).     *)
(***************************************************************************)
ParseOk == [kind |-> "ok", lineno |-> None, offset |-> None, msg |-> NoneStr]
ParseSyntax(lineno, offset, msg) ==
    [kind |-> "syntax", lineno |-> lineno, offset |-> offset, msg |-> msg]
ParseError == [kind |-> "error", lineno |-> None, offset |-> None, msg |-> NoneStr]

SourceFile(path, readable, content, parse) ==
    [path |-> path, readable |-> readable, content |-> content, parse |-> parse]

\* what stops ast.parse at a line of the texts of this model: the line is a
\* lone closing parenthesis, the line holds the deep nesting, or the line is
\* x=( and the text ends there
IsUnmatchedLine(line) == line = <<")">>
IsDeepLine(line) == \E k \in 1..Len(line) : line[k] = "deep"
IsUnclosedLine(lines, n) == lines[n] = <<"x", "=", "(">> /\ n = Len(lines)
StopsParse(lines, n) ==
    IsUnmatchedLine(lines[n]) \/ IsDeepLine(lines[n]) \/ IsUnclosedLine(lines, n)

\* ast.parse(content) for the texts of this model, which are lines of
\* complete statements (x, __, eval, (x), eval(x), eval (x), print(x),
\* os.environ["K"], x=os.environ["K"], empty) and the lines above: a NUL
\* anywhere is refused before parsing, otherwise the first line that stops
\* the parse decides (MemoryError for the deep nesting)
ParseOf(content) ==
    LET lines == SplitLines(content)
    IN  IF \E k \in 1..Len(content) : content[k] = "NUL"
        THEN ParseSyntax(None, None, "source code string cannot contain null bytes")
        ELSE IF \A n \in 1..Len(lines) : ~StopsParse(lines, n) THEN ParseOk
        ELSE LET n == CHOOSE n \in 1..Len(lines) :
                          StopsParse(lines, n) /\ \A j \in 1..(n - 1) : ~StopsParse(lines, j)
             IN  IF IsUnmatchedLine(lines[n]) THEN ParseSyntax(Some(n), Some(1), "unmatched ')'")
                 ELSE IF IsDeepLine(lines[n]) THEN ParseError
                 ELSE ParseSyntax(Some(n), Some(3), "'(' was never closed")

(***************************************************************************)
(* scan_python                                                             *)
(***************************************************************************)
\* re.search(r'print\s*\([^)]*\)', line)
PrintCall(line) ==
    \E k \in 1..Len(line) : \E p \in (k + 1)..Len(line) : \E q \in (p + 1)..Len(line) :
        /\ line[k] = "print"
        /\ \A j \in (k + 1)..(p - 1) : IsSpace(line[j])
        /\ line[p] = "("
        /\ line[q] = ")"

\* re.match(r'^\s*_+\w*$', line.strip())
UnusedVariable(line) ==
    LET s == Strip(line)
    IN  /\ s # <<>>
        /\ s[1] = "_"
        /\ \A k \in 1..Len(s) : IsWord(s[k])

\* the two line rules of scan_python applied to one line, in source order
PyLineIssues(path, line_num, line) ==
    (IF PrintCall(line)
     THEN <<CodeIssue(path, line_num, Find(line, "print"), "LOW", "CODE_SMELL",
                      <<"print() usage for debugging">>, NoneStr,
                      "Use logger instead of print", TRUE)>>
     ELSE <<>>)
    \o
    (IF UnusedVariable(line)
     THEN <<CodeIssue(path, line_num, 0, "INFO", "UNUSED_CODE",
                      <<"Unused variable">>, NoneStr, NoneStr, TRUE)>>
     ELSE <<>>)

\* the except SyntaxError branch of the ast.parse check
SyntaxIssues(path, parse) ==
    IF parse.kind = "syntax"
    THEN <<CodeIssue(path, OrDefault(parse.lineno, 1), OrDefault(parse.offset, 0),
                     "CRITICAL", "SYNTAX_ERROR", <<"Syntax error: ", parse.msg>>,
                     NoneStr, "Review syntax on this line", FALSE)>>
    ELSE <<>>

\* security_patterns: (pattern, desc, severity, fixable); a pattern is head\s*last
SecurityPatterns ==
    << [head |-> "environ",  last |-> NoneStr, desc |-> "Direct environment variable access",
        severity |-> "HIGH", fixable |-> TRUE],
       [head |-> "eval",     last |-> "(", desc |-> "Unsafe eval() usage",
        severity |-> "CRITICAL", fixable |-> FALSE],
       [head |-> "exec",     last |-> "(", desc |-> "Unsafe exec() usage",
        severity |-> "CRITICAL", fixable |-> FALSE],
       [head |-> "pickle",   last |-> NoneStr, desc |-> "pickle.load may be unsafe",
        severity |-> "MEDIUM", fixable |-> TRUE],
       [head |-> "yaml",     last |-> NoneStr, desc |-> "yaml.load without SafeLoader",
        severity |-> "HIGH", fixable |-> TRUE],
       [head |-> "password", last |-> "=", desc |-> "Password in code",
        severity |-> "HIGH", fixable |-> FALSE],
       [head |-> "secret",   last |-> "=", desc |-> "Secret key in code",
        severity |-> "HIGH", fixable |-> FALSE],
       [head |-> "api_key",  last |-> "=", desc |-> "API key in code",
        severity |-> "HIGH", fixable |-> FALSE] >>

\* re.search(pattern, text)
Search(pat, text) == SearchHeadTail(text, pat.head, pat.last)

\* _find_line_with_pattern
FindLineWithPattern(lines, pat) ==
    IF \E k \in 1..Len(lines) : Search(pat, lines[k])
    THEN CHOOSE k \in 1..Len(lines) :
             Search(pat, lines[k]) /\ \A j \in 1..(k - 1) : ~Search(pat, lines[j])
    ELSE 1

\* the loop over security_patterns for one file
SecurityIssues(path, content, lines) ==
    Concat([n \in 1..Len(SecurityPatterns) |->
        LET pat == SecurityPatterns[n]
        IN  IF Search(pat, content)
            THEN <<CodeIssue(path, FindLineWithPattern(lines, pat), 0, pat.severity,
                             "SECURITY_VULNERABILITY", <<"Security: ", pat.desc>>,
                             NoneStr, "Move to .env file", pat.fixable)>>
            ELSE <<>>])

\* PyFileIssues as it would be if a SyntaxError ended the work on the file
\* and discarded what the line rules had appended
PyFileIssuesSyntaxOnly(f) ==
    IF ~f.readable THEN <<>>
    ELSE LET lines == SplitLines(f.content)
             lineIssues == Concat([k \in 1..Len(lines) |-> PyLineIssues(f.path, k, lines[k])])
         IN  IF f.parse.kind = "error" THEN lineIssues
             ELSE IF f.parse.kind = "syntax" THEN SyntaxIssues(f.path, f.parse)
             ELSE lineIssues \o SecurityIssues(f.path, f.content, lines)

\* the body of the loop over py_files: an exception raised anywhere in the
\* try block ends the work on this file and keeps what was appended before it
PyFileIssues(f) ==
    IF ~f.readable THEN <<>>
    ELSE LET lines == SplitLines(f.content)
             lineIssues == Concat([k \in 1..Len(lines) |-> PyLineIssues(f.path, k, lines[k])])
         IN  IF f.parse.kind = "error" THEN lineIssues
             ELSE lineIssues \o SyntaxIssues(f.path, f.parse)
                             \o SecurityIssues(f.path, f.content, lines)

\* ScanPython as it would be with the try around the loop instead of inside
\* it: the first unreadable file ends the scan
RECURSIVE IssuesUntilUnreadable(_)
IssuesUntilUnreadable(py_files) ==
    IF py_files = <<>> THEN <<>>
    ELSE IF ~Head(py_files).readable THEN <<>>
    ELSE PyFileIssues(Head(py_files)) \o IssuesUntilUnreadable(Tail(py_files))
ScanPythonAbortsOnUnreadable(files_scanned, py_files) ==
    [files_scanned |-> files_scanned + Len(py_files),
     issues |-> IssuesUntilUnreadable(py_files)]

\* scan_python: the issues it returns and files_scanned after it
ScanPython(files_scanned, py_files) ==
    [files_scanned |-> files_scanned + Len(py_files),
     issues |-> Concat([k \in 1..Len(py_files) |-> PyFileIssues(py_files[k])])]

(***************************************************************************)
(* scan_javascript                                                         *)
(***************************************************************************)
\* re.search(r'[^=!]==[^=]', line)
LooseEquality(line) ==
    \E k \in 1..(Len(line) - 3) :
        /\ line[k] \notin {"=", "!"}
        /\ line[k + 1] = "="
        /\ line[k + 2] = "="
        /\ line[k + 3] # "="

\* re.search(r'\bvar\s+\w+', line)
VarDeclaration(line) ==
    \E k \in 1..Len(line) : \E p \in (k + 2)..Len(line) :
        /\ line[k] = "var"
        /\ k > 1 => ~EndsWithWordChar(line[k - 1])
        /\ \A j \in (k + 1)..(p - 1) : IsSpace(line[j])
        /\ StartsWithWordChar(line[p])

\* re.search(r'console\.(log|debug|info)', line)
ConsoleCall(line) == \E k \in 1..Len(line) : line[k] = "console.log"

\* the three line rules of scan_javascript applied to one line, in source order
JsLineIssues(path, line_num, line) ==
    (IF LooseEquality(line)
     THEN <<CodeIssue(path, line_num, FindEqEq(line), "MEDIUM", "CODE_SMELL",
                      <<"Use === instead of ==">>, NoneStr,
                      "Use === for strict comparison", TRUE)>>
     ELSE <<>>)
    \o
    (IF VarDeclaration(line)
     THEN <<CodeIssue(path, line_num, Find(line, "var"), "LOW", "DEPRECATED_USAGE",
                      <<"Use let/const instead of var">>, NoneStr,
                      "Use let or const", TRUE)>>
     ELSE <<>>)
    \o
    (IF ConsoleCall(line)
     THEN <<CodeIssue(path, line_num, Find(line, "console.log"), "INFO", "CODE_SMELL",
                      <<"Remaining console.log statement">>, NoneStr,
                      "Remove or use logger", TRUE)>>
     ELSE <<>>)

\* the body of the loop over js_files
JsFileIssues(f) ==
    IF ~f.readable THEN <<>>
    ELSE LET lines == SplitLines(f.content)
         IN  Concat([k \in 1..Len(lines) |-> JsLineIssues(f.path, k, lines[k])])

\* ScanJavascript as it would be with the try around the loop instead of
\* inside it: the first unreadable file ends the scan
RECURSIVE ScanJavascriptAbortsOnUnreadable(_)
ScanJavascriptAbortsOnUnreadable(js_files) ==
    IF js_files = <<>> THEN <<>>
    ELSE IF ~Head(js_files).readable THEN <<>>
    ELSE JsFileIssues(Head(js_files)) \o ScanJavascriptAbortsOnUnreadable(Tail(js_files))

\* scan_javascript: the issues it returns (it leaves files_scanned alone)
ScanJavascript(js_files) ==
    Concat([k \in 1..Len(js_files) |-> JsFileIssues(js_files[k])])

(***************************************************************************)
(* run_linters.  A subprocess run is kind "unavailable" (subprocess.run    *)
(* raises: the tool is not installed), "timeout" (TimeoutExpired) or "ran" *)
(* with a returncode and a stdout.  A stdout is kind "empty", "invalid"    *)
(* (json.loads raises) or "json" with the decoded data.  A decoded JSON    *)
(* object is a function from its keys to its values.                       *)
(***************************************************************************)
Unavailable == [kind |-> "unavailable", returncode |-> 0, stdout |-> [kind |-> "empty", data |-> <<>>]]
TimedOut == [kind |-> "timeout", returncode |-> 0, stdout |-> [kind |-> "empty", data |-> <<>>]]
Ran(returncode, stdout) == [kind |-> "ran", returncode |-> returncode, stdout |-> stdout]
StdoutEmpty == [kind |-> "empty", data |-> <<>>]
StdoutInvalid == [kind |-> "invalid", data |-> <<>>]
StdoutJson(data) == [kind |-> "json", data |-> data]

\* _map_flake8_severity; a code is a tuple of characters
MapFlake8Severity(code) ==
    LET prefix == IF code # <<>> THEN code[1] ELSE "W"
    IN  IF prefix = "E" THEN "HIGH"
        ELSE IF prefix = "F" THEN "CRITICAL"
        ELSE IF prefix = "W" THEN "LOW"
        ELSE "MEDIUM"

\* MapEslintSeverity as it would be with eslint's error level mapped to
\* critical
MapEslintSeverityErrorIsCritical(severity) ==
    IF severity = 2 THEN "CRITICAL"
    ELSE IF severity = 1 THEN "MEDIUM"
    ELSE "LOW"

\* _map_eslint_severity
MapEslintSeverity(severity) ==
    IF severity = 2 THEN "HIGH"
    ELSE IF severity = 1 THEN "MEDIUM"
    ELSE "LOW"

\* the keys the flake8 branch subscripts: a missing one raises KeyError
Flake8Keys == {"filename", "line_number", "column_number", "type", "text", "id"}

\* the loop over the flake8 data: the issues appended before the first
\* exception, and whether an exception was raised
RECURSIVE Flake8Loop(_)
Flake8Loop(data) ==
    IF data = <<>> THEN [issues |-> <<>>, raised |-> FALSE]
    ELSE LET item == Head(data)
         IN  IF ~(Flake8Keys \subseteq DOMAIN item) THEN [issues |-> <<>>, raised |-> TRUE]
             ELSE LET rest == Flake8Loop(Tail(data))
                  IN  [issues |-> <<CodeIssue(item["filename"], item["line_number"],
                                              item["column_number"],
                                              MapFlake8Severity(item["type"]),
                                              "LINTING_ERROR", <<item["text"]>>,
                                              item["id"], NoneStr, TRUE)>> \o rest.issues,
                       raised |-> rest.raised]

\* the flake8 try block of run_linters: what it appends to issues
Flake8Issues(run) ==
    IF run.kind # "ran" THEN <<>>
    ELSE IF run.returncode = 0 THEN <<>>
    ELSE IF run.stdout.kind = "empty" THEN <<>>
    ELSE IF run.stdout.kind = "invalid" THEN <<>>
    ELSE Flake8Loop(run.stdout.data).issues

\* the keys the eslint branch subscripts in a message
EslintMsgKeys == {"line", "column", "severity", "message", "ruleId"}

\* msg.get('fix') is not None
HasFix(msg) == "fix" \in DOMAIN msg /\ msg["fix"] # NoneStr

\* item.get('messages', [])
GetMessages(item) == IF "messages" \in DOMAIN item THEN item["messages"] ELSE <<>>

\* the inner loop over the messages of one eslint file result
RECURSIVE EslintMsgLoop(_, _)
EslintMsgLoop(item, msgs) ==
    IF msgs = <<>> THEN [issues |-> <<>>, raised |-> FALSE]
    ELSE LET msg == Head(msgs)
         IN  IF ~("filePath" \in DOMAIN item /\ EslintMsgKeys \subseteq DOMAIN msg)
             THEN [issues |-> <<>>, raised |-> TRUE]
             ELSE LET rest == EslintMsgLoop(item, Tail(msgs))
                  IN  [issues |-> <<CodeIssue(item["filePath"], msg["line"], msg["column"],
                                              MapEslintSeverity(msg["severity"]),
                                              "LINTING_ERROR", <<msg["message"]>>,
                                              msg["ruleId"], NoneStr, HasFix(msg))>>
                                  \o rest.issues,
                       raised |-> rest.raised]

\* the outer loop over the eslint file results
RECURSIVE EslintLoop(_)
EslintLoop(data) ==
    IF data = <<>> THEN [issues |-> <<>>, raised |-> FALSE]
    ELSE LET first == EslintMsgLoop(Head(data), GetMessages(Head(data)))
         IN  IF first.raised THEN first
             ELSE LET rest == EslintLoop(Tail(data))
                  IN  [issues |-> first.issues \o rest.issues, raised |-> rest.raised]

\* the eslint try block of run_linters: what it appends to issues
EslintIssues(run) ==
    IF run.kind # "ran" THEN <<>>
    ELSE IF run.returncode = 0 THEN <<>>
    ELSE IF run.stdout.kind = "empty" THEN <<>>
    ELSE IF run.stdout.kind = "invalid" THEN <<>>
    ELSE EslintLoop(run.stdout.data).issues

\* RunLinters as it would be with one try block around both tools
RunLintersSingleTry(flake8, eslint) ==
    IF flake8.kind # "ran" THEN <<>> ELSE Flake8Issues(flake8) \o EslintIssues(eslint)

\* run_linters: one list, the flake8 block appends first, the eslint block after
RunLinters(flake8, eslint) == Flake8Issues(flake8) \o EslintIssues(eslint)

\* the except handler of a try block of run_linters runs and prints: the
\* tool could not be run, or its output could not be decoded or lacks a key
Flake8Prints(run) ==
    \/ run.kind # "ran"
    \/ /\ run.returncode # 0
       /\ \/ run.stdout.kind = "invalid"
          \/ run.stdout.kind = "json" /\ Flake8Loop(run.stdout.data).raised
EslintPrints(run) ==
    \/ run.kind # "ran"
    \/ /\ run.returncode # 0
       /\ \/ run.stdout.kind = "invalid"
          \/ run.stdout.kind = "json" /\ EslintLoop(run.stdout.data).raised

\* the outer except handler of scan_python runs and prints for some file:
\* the file cannot be read, or its parse raises other than SyntaxError
ScanPythonPrints(py) == \E k \in 1..Len(py) : ~py[k].readable \/ py[k].parse.kind = "error"

\* the except handler of scan_javascript runs and prints for some file
ScanJavascriptPrints(js) == \E k \in 1..Len(js) : ~js[k].readable

(***************************************************************************)
(* ScanResult and analyze                                                  *)
(***************************************************************************)
\* an empty dict
EmptyDict == [k \in {} |-> 0]

\* d[k] = d.get(k, 0) + 1
DictInc(d, k) == IF k \in DOMAIN d THEN [d EXCEPT ![k] = @ + 1] ELSE d @@ (k :> 1)

\* ScanResult(): the field defaults; the timestamp is the time of construction
NewScanResult(now) ==
    [timestamp |-> now, files_scanned |-> 0, issues_found |-> 0,
     issues_by_severity |-> EmptyDict, issues_by_type |-> EmptyDict,
     critical_issues |-> <<>>, auto_fixable_issues |-> <<>>, issues |-> <<>>]

\* CategorizeOne as it would be with a severity threshold instead of the
\* critical tag
CategorizeOneHighBlocks(r, issue) ==
    [r EXCEPT
       !.issues_by_severity = DictInc(@, SeverityValue(issue.severity)),
       !.issues_by_type = DictInc(@, IssueTypeValue(issue.issue_type)),
       !.critical_issues = IF issue.severity \in {"CRITICAL", "HIGH"} THEN Append(@, issue) ELSE @,
       !.auto_fixable_issues = IF issue.fixable THEN Append(@, issue) ELSE @]

\* one pass of the categorizing loop of analyze
CategorizeOne(r, issue) ==
    [r EXCEPT
       !.issues_by_severity = DictInc(@, SeverityValue(issue.severity)),
       !.issues_by_type = DictInc(@, IssueTypeValue(issue.issue_type)),
       !.critical_issues = IF issue.severity = "CRITICAL" THEN Append(@, issue) ELSE @,
       !.auto_fixable_issues = IF issue.fixable THEN Append(@, issue) ELSE @]

\* the categorizing loop of analyze over self.issues
RECURSIVE Categorize(_, _)
Categorize(r, todo) ==
    IF todo = <<>> THEN r ELSE Categorize(CategorizeOne(r, Head(todo)), Tail(todo))

\* MergeIssues as it would be with the linters' issues put first
MergeIssuesLintersFirst(python_issues, js_issues, linter_issues) ==
    linter_issues \o python_issues \o js_issues

\* self.issues = python_issues + js_issues + linter_issues
MergeIssues(python_issues, js_issues, linter_issues) ==
    python_issues \o js_issues \o linter_issues

\* analyze after its three calls: self.issues, result.issues, issues_found
\* and the categorizing loop
Aggregate(r, files_scanned, python_issues, js_issues, linter_issues) ==
    LET all == MergeIssues(python_issues, js_issues, linter_issues)
    IN  Categorize([r EXCEPT !.files_scanned = files_scanned,
                             !.issues = all,
                             !.issues_found = Len(all)], all)

\* analyze, from the ScanResult the analyzer holds to the one it returns
AnalyzeResult(r, py, js, flake8, eslint) ==
    LET scanned == ScanPython(r.files_scanned, py)
    IN  Aggregate(r, scanned.files_scanned, scanned.issues, ScanJavascript(js),
                  RunLinters(flake8, eslint))

\* ScanResult.to_dict
ResultToDict(r) ==
    [timestamp |-> r.timestamp,
     summary |-> [files_scanned |-> r.files_scanned,
                  total_issues |-> r.issues_found,
                  by_severity |-> r.issues_by_severity,
                  by_type |-> r.issues_by_type,
                  critical_count |-> Len(r.critical_issues),
                  auto_fixable_count |-> Len(r.auto_fixable_issues)],
     critical_issues |-> [k \in 1..Len(r.critical_issues) |-> IssueToDict(r.critical_issues[k])],
     auto_fixable_issues |-> [k \in 1..Len(r.auto_fixable_issues) |-> IssueToDict(r.auto_fixable_issues[k])],
     all_issues |-> [k \in 1..Len(r.issues) |-> IssueToDict(r.issues[k])]]

(***************************************************************************)
(* The inputs of a run: the file tree under the project root and what the  *)
(* two linter subprocesses do.  "x" stands for one character of other      *)
(* text.                                                                   *)
(***************************************************************************)
PyPaths == <<"a.py", "b.py", "c.py", "d.py">>
\* every *.js file comes before every *.ts file
JsPaths == <<"a.js", "b.ts", "c.ts", "d.ts">>

\* print(x) / eval(x)
PrintEvalText == <<"print", "(", "x", ")", "NL", "eval", "(", "x", ")">>
\* print(x) / x=(
PrintUnclosedText == <<"print", "(", "x", ")", "NL", "x", "=", "(">>
\* x and a NUL character
NulText == <<"x", "NUL">>
\* __ / x=os.environ["K"] / the deep nesting
UnusedEnvironText == <<"_", "_", "NL", "x", "=", "environ", "NL", "deep">>

PyFileKinds(path) ==
    { SourceFile(path, FALSE, PrintEvalText, ParseOf(PrintEvalText)),
      SourceFile(path, TRUE, PrintEvalText, ParseOf(PrintEvalText)),
      SourceFile(path, TRUE, PrintUnclosedText, ParseOf(PrintUnclosedText)),
      SourceFile(path, TRUE, NulText, ParseOf(NulText)),
      SourceFile(path, TRUE, UnusedEnvironText, ParseOf(UnusedEnvironText)) }

\* x == x / var x / console.log / x===x
JsSampleText == <<"x", " ", "=", "=", " ", "x", "NL", "var", " ", "x", "NL",
                  "console.log", "NL", "x", "=", "=", "=", "x">>

JsFileKinds(path) ==
    { SourceFile(path, FALSE, JsSampleText, ParseOk),
      SourceFile(path, TRUE, JsSampleText, ParseOk) }

\* the texts of at most n tokens over an alphabet
Texts(tokens, n) == UNION { [1..m -> tokens] : m \in 0..n }

\* the lines of a Python file the whole-file security patterns are tried
\* on: x, eval(x), eval, (x), eval (x), os.environ["K"], a lone ), the deep
\* nesting, an empty line
PyLines ==
    { <<"x">>, <<"eval", "(", "x", ")">>, <<"eval">>, <<"(", "x", ")">>,
      <<"eval", " ", "(", "x", ")">>, <<"environ">>, <<")">>, <<"deep">>, <<>> }

\* '\n'.join(lines)
RECURSIVE JoinLines(_)
JoinLines(lines) ==
    IF Len(lines) = 1 THEN lines[1] ELSE lines[1] \o <<"NL">> \o JoinLines(Tail(lines))

\* the texts of one to n lines of PyLines
PyTexts(n) == UNION { { JoinLines(lines) : lines \in [1..m -> PyLines] } : m \in 1..n }

\* the text of a line of a JavaScript file as the loose equality rule sees
\* it: =, !, blank, other text
JsTokens == {"=", "!", " ", "x"}

\* the trees of at most n files, the k-th file of a kind in Kinds[k]
Trees(Kinds, paths, n) ==
    UNION { { t \in [1..m -> UNION {Kinds[k] : k \in 1..m}] :
                  \A k \in 1..m : t[k].path = paths[k] } : m \in 0..n }

Flake8Item(code, line) ==
    [filename |-> "./a.py", line_number |-> line, column_number |-> 1,
     type |-> code, text |-> "finding", id |-> "R1"]
\* a finding without its "text"
Flake8ItemNoText ==
    [filename |-> "./a.py", line_number |-> 9, column_number |-> 1,
     type |-> <<"E">>, id |-> "R1"]

\* flake8 exits 1 with three findings, two of them the same
Flake8Findings ==
    Ran(1, StdoutJson(<<Flake8Item(<<"F">>, 1), Flake8Item(<<"E">>, 2),
                        Flake8Item(<<"F">>, 1)>>))

Flake8Runs ==
    { Unavailable,
      Ran(0, StdoutJson(<<Flake8Item(<<"F">>, 1)>>)),
      Flake8Findings,
      Ran(1, StdoutJson(<<Flake8Item(<<"W">>, 1), Flake8ItemNoText, Flake8Item(<<>>, 3)>>)) }

EslintMsg(severity, line, fix) ==
    [line |-> line, column |-> 1, severity |-> severity, message |-> "finding",
     ruleId |-> "eqeqeq", fix |-> fix]
\* a message without "fix", and one without its "line"
EslintMsgNoFix ==
    [line |-> 7, column |-> 1, severity |-> 1, message |-> "finding", ruleId |-> NoneStr]
EslintMsgNoLine ==
    [column |-> 1, severity |-> 2, message |-> "finding", ruleId |-> "eqeqeq"]

\* eslint exits 1 with two file results, the second without messages
EslintFindings ==
    Ran(1, StdoutJson(<<[filePath |-> "/p/a.js",
                         messages |-> <<EslintMsg(2, 1, "fix"), EslintMsgNoFix>>],
                        [filePath |-> "/p/b.ts"]>>))

EslintRuns ==
    { Unavailable,
      TimedOut,
      Ran(1, StdoutInvalid),
      EslintFindings,
      Ran(1, StdoutJson(<<[filePath |-> "/p/a.js",
                           messages |-> <<EslintMsg(0, 1, NoneStr), EslintMsgNoLine,
                                          EslintMsg(1, 3, "fix")>>]>>)) }

(***************************************************************************)
(* State.                                                                  *)
(*   py_files, js_files   what rglob finds under project_root, in order    *)
(*   flake8_run, eslint_run   what the two subprocess.run calls do         *)
(*   result               analyzer.result, the one ScanResult object       *)
(*   issues               analyzer.issues                                  *)
(*   emitted              the lists the last analyze() got from            *)
(*                        scan_python, scan_javascript and the two blocks  *)
(*                        of run_linters                                   *)
(*   returned             the value the ScanResult had when analyze()      *)
(*                        first returned it (None before)                  *)
(*   pc, runs             position of the caller, calls of analyze() and   *)
(*                        scan_python() made on the analyzer so far        *)
(*   output_path          the file --output names, once main has read it   *)
(*   output_file          the content of that file (None: not written)     *)
(*   critical_file        the content of critical-issues.json; when        *)
(*                        --output names critical-issues.json the two are  *)
(*                        one file                                         *)
(*   exit_code            the exit status of the process                   *)
(***************************************************************************)
VARIABLES py_files, js_files, flake8_run, eslint_run, result, issues, emitted,
          returned, pc, runs, output_path, output_file, critical_file, exit_code

vars == <<py_files, js_files, flake8_run, eslint_run, result, issues, emitted,
          returned, pc, runs, output_path, output_file, critical_file, exit_code>>

\* what main leaves behind
sinks == <<output_path, output_file, critical_file, exit_code>>

inputs == <<py_files, js_files, flake8_run, eslint_run>>

NoEmitted == [python |-> <<>>, js |-> <<>>, flake8 |-> <<>>, eslint |-> <<>>]

\* the trees of the runs
PyTrees == Trees([k \in 1..MaxPyFiles |-> PyFileKinds(PyPaths[k])], PyPaths, MaxPyFiles)
JsTrees == Trees([k \in 1..MaxJsFiles |-> JsFileKinds(JsPaths[k])], JsPaths, MaxJsFiles)

\* no JavaScript file, or a *.js and a *.ts file of which one cannot be read
JsPairs ==
    { <<>>,
      <<SourceFile(JsPaths[1], FALSE, JsSampleText, ParseOk),
        SourceFile(JsPaths[2], TRUE, JsSampleText, ParseOk)>>,
      <<SourceFile(JsPaths[1], TRUE, JsSampleText, ParseOk),
        SourceFile(JsPaths[2], FALSE, JsSampleText, ParseOk)>> }

\* CodeAnalyzer.__init__ has run, with neither linter installed or both
\* reporting findings: over any Python tree beside no JavaScript file or a
\* pair of them, or over any JavaScript tree beside at most one Python
\* file; or with the linters doing anything over an empty tree or a tree of
\* one Python and one JavaScript file
Init ==
    /\ \/ /\ \/ py_files \in PyTrees /\ js_files \in JsPairs
             \/ /\ py_files \in {<<>>, <<SourceFile(PyPaths[1], TRUE, PrintEvalText,
                                                      ParseOf(PrintEvalText))>>}
                /\ js_files \in JsTrees
          /\ \/ flake8_run = Unavailable /\ eslint_run = Unavailable
             \/ flake8_run = Flake8Findings /\ eslint_run = EslintFindings
       \/ /\ \/ py_files = <<>> /\ js_files = <<>>
             \/ /\ py_files = <<SourceFile(PyPaths[1], TRUE, PrintEvalText,
                                            ParseOf(PrintEvalText))>>
                /\ js_files = <<SourceFile(JsPaths[1], TRUE, JsSampleText, ParseOk)>>
          /\ flake8_run \in Flake8Runs
          /\ eslint_run \in EslintRuns
    /\ result = NewScanResult("t0")
    /\ issues = <<>>
    /\ emitted = NoEmitted
    /\ returned = None
    /\ pc = "constructed"
    /\ runs = 0
    /\ output_path = None
    /\ output_file = None
    /\ critical_file = None
    /\ exit_code = None

\* analyzer.analyze(): the first call (main's, or a client's) or a further
\* call by a client of the class on the same analyzer, the tree unchanged
Analyze ==
    /\ pc \in {"constructed", "returned"}
    /\ runs < MaxRuns
    /\ result' = AnalyzeResult(result, py_files, js_files, flake8_run, eslint_run)
    /\ issues' = result'.issues
    /\ emitted' = [python |-> ScanPython(result.files_scanned, py_files).issues,
                   js |-> ScanJavascript(js_files),
                   flake8 |-> Flake8Issues(flake8_run),
                   eslint |-> EslintIssues(eslint_run)]
    /\ returned' = IF returned = None THEN Some(result') ELSE returned
    /\ runs' = runs + 1
    /\ pc' = "returned"
    /\ UNCHANGED <<inputs, sinks>>

\* the exit status of a process that would end with status: 120 when stdout
\* cannot be flushed at exit (it is full, or a pipe nobody reads)
ExitStatus(status, flushed) == IF flushed THEN status ELSE 120

\* the prints of analyze() in the order it reaches them, each named by the
\* position analyze() is left at when that print raises
PrintPositions == {"raised_start", "raised_scan_python", "raised_scan_javascript",
                   "raised_flake8", "raised_eslint", "raised_summary"}

\* analyzer.analyze() when a print of it raises because stdout cannot be
\* written: the first print, a print of an except handler of scan_python,
\* scan_javascript or run_linters (scan_python has counted its files,
\* self.issues is not assigned), or a print of the summary (the ScanResult
\* is aggregated but not returned); nothing catches the exception and the
\* process ends with status 1
AnalyzePrintRaises ==
    /\ pc \in {"constructed", "returned"}
    /\ runs < MaxRuns
    /\ \E at \in PrintPositions : \E flushed \in BOOLEAN :
           /\ at = "raised_scan_python" => ScanPythonPrints(py_files)
           /\ at = "raised_scan_javascript" => ScanJavascriptPrints(js_files)
           /\ at = "raised_flake8" => Flake8Prints(flake8_run)
           /\ at = "raised_eslint" => EslintPrints(eslint_run)
           /\ result' = IF at = "raised_start" THEN result
                         ELSE IF at # "raised_summary"
                         THEN [result EXCEPT !.files_scanned =
                                  ScanPython(result.files_scanned, py_files).files_scanned]
                         ELSE AnalyzeResult(result, py_files, js_files, flake8_run, eslint_run)
           /\ issues' = IF at = "raised_summary" THEN result'.issues ELSE issues
           /\ emitted' = IF at = "raised_summary"
                          THEN [python |-> ScanPython(result.files_scanned, py_files).issues,
                                js |-> ScanJavascript(js_files),
                                flake8 |-> Flake8Issues(flake8_run),
                                eslint |-> EslintIssues(eslint_run)]
                          ELSE emitted
           /\ exit_code' = Some(ExitStatus(1, flushed))
           /\ pc' = at
    /\ runs' = runs + 1
    /\ UNCHANGED <<inputs, returned, output_path, output_file, critical_file>>

\* analyzer.scan_python() called by a client of the class outside analyze():
\* it adds to files_scanned of the analyzer's ScanResult and returns its
\* issues to the caller
ScanPythonCall ==
    /\ pc \in {"constructed", "returned"}
    /\ runs < MaxRuns
    /\ result' = [result EXCEPT
                     !.files_scanned = ScanPython(result.files_scanned, py_files).files_scanned]
    /\ runs' = runs + 1
    /\ UNCHANGED <<inputs, issues, emitted, returned, pc, sinks>>

\* what is left of a file when json.dump raised while writing it
PartialFile == [partial |-> TRUE]

\* the file --output names: the default, for any file that is not
\* critical-issues.json, or critical-issues.json of the working directory
OutputPaths == {"scan-results.json", "critical-issues.json"}

\* how far main gets: to sys.exit ("ok"), or to the call that raises:
\* creating the directory of the output file ("mkdir"), opening the output
\* file ("open"), json.dump of the results ("dump"), the print after it
\* ("print_results"), opening critical-issues.json ("critical_open"),
\* json.dump of the critical issues ("critical_dump"), the print after it
\* ("print_critical")
SinkOutcomes == {"ok", "mkdir", "open", "dump", "print_results",
                 "critical_open", "critical_dump", "print_critical"}

\* the file --output names after the block that saves the results
ResultsWrite(r, format, sink) ==
    IF format # "json" \/ sink \in {"mkdir", "open"} THEN None
    ELSE IF sink = "dump" THEN Some(PartialFile)
    ELSE Some(ResultToDict(r))

\* critical-issues.json after the block that saves the critical issues,
\* before being what the file held when main reached the block
CriticalWrite(r, sink, before) ==
    IF sink \in {"mkdir", "open", "dump", "print_results", "critical_open"} THEN before
    ELSE IF r.critical_issues = <<>> THEN before
    ELSE IF sink = "critical_dump" THEN Some(PartialFile)
    ELSE Some([k \in 1..Len(r.critical_issues) |-> IssueToDict(r.critical_issues[k])])

\* main after its analyze() call: save the results (--format json only),
\* save the critical issues file, sys.exit; an exception of a write or of a
\* print is not caught and ends the process with status 1 (pc "crashed")
Main ==
    /\ pc = "returned"
    /\ runs = 1
    /\ \E format \in {"json", "sarif"} : \E path \in OutputPaths :
       \E sink \in SinkOutcomes : \E flushed \in BOOLEAN :
           LET same == path = "critical-issues.json"
               first == ResultsWrite(result, format, sink)
               second == CriticalWrite(result, sink, IF same THEN first ELSE None)
           IN  /\ sink \in {"open", "dump", "print_results"} => format = "json"
               /\ sink \in {"critical_open", "critical_dump", "print_critical"} =>
                      result.critical_issues # <<>>
               \* the directory of critical-issues.json is the working directory
               /\ sink = "mkdir" => ~same
               \* the file was opened by the block before
               /\ (sink = "critical_open" /\ same) => format # "json"
               /\ output_path' = Some(path)
               /\ output_file' = IF same THEN second ELSE first
               /\ critical_file' = second
               /\ exit_code' = Some(ExitStatus(IF sink # "ok" THEN 1
                                                ELSE IF Len(result.critical_issues) > 0 THEN 1
                                                ELSE 0, flushed))
               /\ pc' = IF sink = "ok" THEN "exited" ELSE "crashed"
    /\ UNCHANGED <<inputs, result, issues, emitted, returned, runs>>

Next == Analyze \/ AnalyzePrintRaises \/ ScanPythonCall \/ Main

Spec == Init /\ [][Next]_vars

\* what __init__ sets, the tree and the tools apart
Constructed ==
    /\ result = NewScanResult("t0")
    /\ issues = <<>>
    /\ emitted = NoEmitted
    /\ returned = None
    /\ pc = "constructed"
    /\ runs = 0
    /\ output_path = None
    /\ output_file = None
    /\ critical_file = None
    /\ exit_code = None

\* an analyzer over a tree of one readable Python file of at most MaxLines
\* lines, neither linter installed
InitPy ==
    /\ py_files \in { <<SourceFile(PyPaths[1], TRUE, content, ParseOf(content))>> :
                         content \in PyTexts(MaxLines) }
    /\ js_files = <<>>
    /\ flake8_run = Unavailable
    /\ eslint_run = Unavailable
    /\ Constructed

SpecPy == InitPy /\ [][Next]_vars

\* an analyzer over a tree of one readable JavaScript file: a line of an
\* operand or a var declaration followed by at most MaxLen tokens, with or
\* without a console.log line after it, neither linter installed
InitJs ==
    /\ py_files = <<>>
    /\ js_files \in { <<SourceFile(JsPaths[1], TRUE, before \o line \o after, ParseOk)>> :
                         line \in Texts(JsTokens, MaxLen),
                         before \in {<<"x">>, <<"var", " ", "x", " ">>},
                         after \in {<<>>, <<"NL", "console.log">>} }
    /\ flake8_run = Unavailable
    /\ eslint_run = Unavailable
    /\ Constructed

SpecJs == InitJs /\ [][Next]_vars

(***************************************************************************)
(* Definitions the properties share.                                       *)
(***************************************************************************)
Range(s) == {s[k] : k \in 1..Len(s)}

RECURSIVE SumValues(_)
SumValues(d) ==
    IF DOMAIN d = {} THEN 0
    ELSE LET k == CHOOSE x \in DOMAIN d : TRUE
         IN  d[k] + SumValues([x \in DOMAIN d \ {k} |-> d[x]])

\* analyze() has returned at least once
Analyzed == returned # None

\* where an issue of all_issues comes from, told by the file it names
IsPythonIssue(i) == i.file \in Range(PyPaths)
IsJsIssue(i) == i.file \in Range(JsPaths)
IsPatternIssue(i) == IsPythonIssue(i) \/ IsJsIssue(i)
IsFlake8Issue(i) == i.file = "./a.py"
IsEslintIssue(i) == i.file \in {"/p/a.js", "/p/b.ts"}
IsCritical(i) == i.severity = "CRITICAL"
IsFixable(i) == i.fixable

\* 1 scan_python, 2 scan_javascript, 3 flake8, 4 eslint
Origin(i) ==
    IF IsPythonIssue(i) THEN 1 ELSE IF IsJsIssue(i) THEN 2 ELSE IF IsFlake8Issue(i) THEN 3 ELSE 4

\* the summary of the persisted result
Summary == ResultToDict(result).summary

(***************************************************************************)
(* C1.  After every analyze() the summary's total_issues is the length of  *)
(* all_issues, and the by_severity counts and the by_type counts each sum  *)
(* to total_issues.                                                        *)
(***************************************************************************)
C1_SummaryCountsAgree ==
    Analyzed =>
        /\ Summary.total_issues = Len(ResultToDict(result).all_issues)
        /\ SumValues(Summary.by_severity) = Summary.total_issues
        /\ SumValues(Summary.by_type) = Summary.total_issues

(***************************************************************************)
(* C2.  After analyze(), all_issues is the issues of scan_python, then of  *)
(* scan_javascript, then of the flake8 block, then of the eslint block,    *)
(* each in its emission order, nothing dropped, deduplicated or moved; so  *)
(* the origins of the issues never decrease along all_issues.              *)
(***************************************************************************)
C2_AllIssuesIsConcatenation ==
    Analyzed =>
        /\ result.issues = emitted.python \o emitted.js \o emitted.flake8 \o emitted.eslint
        /\ issues = result.issues
        /\ \A a, b \in 1..Len(result.issues) :
               a < b => Origin(result.issues[a]) <= Origin(result.issues[b])

\* all four sources emitted, and one of them the same issue twice
C2_Witness ==
    /\ Analyzed
    /\ emitted.python # <<>> /\ emitted.js # <<>>
    /\ emitted.flake8 # <<>> /\ emitted.eslint # <<>>
    /\ \E a, b \in 1..Len(result.issues) : a < b /\ result.issues[a] = result.issues[b]

(***************************************************************************)
(* C3.  After analyze(), critical_issues is the subsequence of all_issues  *)
(* with severity critical and auto_fixable_issues the subsequence with     *)
(* fixable true, and critical_count and auto_fixable_count are their       *)
(* lengths.                                                                *)
(***************************************************************************)
C3_SubsetsAreSubsequences ==
    Analyzed =>
        /\ result.critical_issues = SelectSeq(result.issues, IsCritical)
        /\ result.auto_fixable_issues = SelectSeq(result.issues, IsFixable)
        /\ Summary.critical_count = Len(SelectSeq(result.issues, IsCritical))
        /\ Summary.auto_fixable_count = Len(SelectSeq(result.issues, IsFixable))

\* the process main runs in has ended: by sys.exit, or by an exception of a
\* write or of a print that nothing catches
Ended == pc \in {"exited", "crashed"} \cup PrintPositions

\* it has ended by an exception: of a write or a print of main, or of a
\* print of analyze()
Crashed == pc \in {"crashed"} \cup PrintPositions

(***************************************************************************)
(* C4 as stated.  The process of main ends with status 1 exactly when some *)
(* issue of all_issues is critical and with status 0 otherwise, whatever   *)
(* other issues there are, and the critical issues file is written exactly *)
(* when it ends with 1.                                                    *)
(***************************************************************************)
C4_GateIffCritical ==
    Ended =>
        /\ exit_code \in {Some(0), Some(1)}
        /\ exit_code = Some(1) <=> \E k \in 1..Len(result.issues) : IsCritical(result.issues[k])
        /\ exit_code = Some(1) <=> Summary.critical_count > 0
        /\ critical_file # None <=> exit_code = Some(1)

(***************************************************************************)
(* C4 as amended.  When main reaches sys.exit and stdout can be flushed at *)
(* exit, the process ends with status 1 exactly when some issue of         *)
(* all_issues is critical and with status 0 otherwise, whatever other      *)
(* issues there are; when main reaches sys.exit and --output does not name *)
(* critical-issues.json, the critical issues file is written, complete,    *)
(* exactly when some issue is critical.  When stdout cannot be flushed at  *)
(* exit the status is 120; when a write or a print raises, the process     *)
(* ends with status 1 or 120 whatever the issues are; when --output names  *)
(* critical-issues.json that one file ends holding what was written last,  *)
(* the results when no issue is critical.                                  *)
(***************************************************************************)
C4_GateIffCriticalWhenWritesSucceed ==
    /\ (pc = "exited" /\ exit_code # Some(120)) =>
           /\ exit_code \in {Some(0), Some(1)}
           /\ exit_code = Some(1) <=>
                  \E k \in 1..Len(result.issues) : IsCritical(result.issues[k])
           /\ exit_code = Some(1) <=> Summary.critical_count > 0
    /\ (pc = "exited" /\ output_path # Some("critical-issues.json")) =>
           /\ critical_file # None <=>
                  \E k \in 1..Len(result.issues) : IsCritical(result.issues[k])
           /\ critical_file # None =>
                  critical_file = Some(ResultToDict(result).critical_issues)
    /\ (pc = "exited" /\ output_path = Some("critical-issues.json")) =>
           /\ output_file = critical_file
           /\ (critical_file # None /\ Summary.critical_count > 0) =>
                  critical_file = Some(ResultToDict(result).critical_issues)
           /\ (critical_file # None /\ Summary.critical_count = 0) =>
                  critical_file = Some(ResultToDict(result))
    /\ Ended => exit_code \in {Some(0), Some(1), Some(120)}
    /\ Crashed => exit_code \in {Some(1), Some(120)}

\* main exited with 1 on a tree that also has issues that are not critical,
\* the results and the critical issues in two files
C4_Witness ==
    /\ pc = "exited"
    /\ exit_code = Some(1)
    /\ output_path = Some("scan-results.json")
    /\ output_file = Some(ResultToDict(result))
    /\ critical_file = Some(ResultToDict(result).critical_issues)
    /\ \E k \in 1..Len(result.issues) : result.issues[k].severity = "HIGH"

\* the issues of its adapter and of the pattern detectors in all_issues when
\* a tool could not be run
AdapterIssuesKept ==
    Analyzed =>
        /\ SelectSeq(result.issues, IsPatternIssue)
               = ScanPython(0, py_files).issues \o ScanJavascript(js_files)
        /\ flake8_run.kind # "ran" =>
               /\ SelectSeq(result.issues, IsFlake8Issue) = <<>>
               /\ SelectSeq(result.issues, IsEslintIssue) = EslintIssues(eslint_run)
        /\ eslint_run.kind # "ran" =>
               /\ SelectSeq(result.issues, IsEslintIssue) = <<>>
               /\ SelectSeq(result.issues, IsFlake8Issue) = Flake8Issues(flake8_run)

\* some pattern-detector finding of the tree is critical
PatternCritical ==
    \E k \in 1..Len(ScanPython(0, py_files).issues) :
        IsCritical(ScanPython(0, py_files).issues[k])

Flake8OutputMalformed(run) ==
    /\ run.kind = "ran" /\ run.returncode # 0
    /\ \/ run.stdout.kind = "invalid"
       \/ run.stdout.kind = "json" /\ Flake8Loop(run.stdout.data).raised
EslintOutputMalformed(run) ==
    /\ run.kind = "ran" /\ run.returncode # 0
    /\ \/ run.stdout.kind = "invalid"
       \/ run.stdout.kind = "json" /\ EslintLoop(run.stdout.data).raised

(***************************************************************************)
(* C6.  After analyze(), an adapter whose linter output is malformed has   *)
(* contributed no issue to all_issues.                                     *)
(***************************************************************************)
C6_MalformedOutputGivesNoIssues ==
    Analyzed =>
        /\ Flake8OutputMalformed(flake8_run) => SelectSeq(result.issues, IsFlake8Issue) = <<>>
        /\ EslintOutputMalformed(eslint_run) => SelectSeq(result.issues, IsEslintIssue) = <<>>

(***************************************************************************)
(* C7.  After analyze(), files_scanned is the number of *.py files plus    *)
(* the number of *.js and *.ts files under the project root.               *)
(***************************************************************************)
C7_FilesScannedCountsBothDialects ==
    Analyzed => Summary.files_scanned = Len(py_files) + Len(js_files)

\* the fields of a ScanResult other than its timestamp
Observable(r) ==
    <<r.files_scanned, r.issues_by_severity, r.issues_by_type, r.critical_issues,
      r.auto_fixable_issues, r.issues>>

(***************************************************************************)
(* C8.  The ScanResult the first analyze() returned keeps the value it was *)
(* returned with, whatever happens later: a further analyze() on the same  *)
(* analyzer over the unchanged tree leaves it alone and returns a result   *)
(* equal to it, the timestamp apart.  (analyze() returns the analyzer's    *)
(* one ScanResult object, so both read the variable result.)               *)
(***************************************************************************)
C8_ReturnedResultNeverMutated ==
    returned # None => Observable(result) = Observable(returned[1])

\* the issues of all_issues that name the file `path`
IssuesOfFile(path) == LET Mine(i) == i.file = path IN SelectSeq(result.issues, Mine)

IsSyntaxIssue(i) == i.issue_type = "SYNTAX_ERROR"
IsNotSyntaxIssue(i) == i.issue_type # "SYNTAX_ERROR"

\* the one issue a parse failure is reported as
IsReportedFailure(i, parse) ==
    /\ i.severity = "CRITICAL" /\ i.issue_type = "SYNTAX_ERROR" /\ i.fixable = FALSE
    /\ i.line = (IF parse.lineno = None THEN 1 ELSE parse.lineno[1])
    /\ i.column = (IF parse.offset = None THEN 0 ELSE parse.offset[1])

(***************************************************************************)
(* C9 as stated.  After analyze(), a readable Python file whose parse      *)
(* fails with a SyntaxError has exactly one issue in all_issues, the       *)
(* critical, not fixable                                                   *)
(* syntax_error issue at the reported line and column (1 and 0 when not    *)
(* reported), and a file that parses has no syntax_error issue.            *)
(***************************************************************************)
C9_ParseFailureGivesOnlySyntaxIssue ==
    Analyzed =>
        \A k \in 1..Len(py_files) :
            LET f == py_files[k]
                mine == IssuesOfFile(f.path)
            IN  f.readable =>
                    /\ f.parse.kind = "syntax" =>
                           Len(mine) = 1 /\ IsReportedFailure(mine[1], f.parse)
                    /\ f.parse.kind = "ok" => SelectSeq(mine, IsSyntaxIssue) = <<>>

(***************************************************************************)
(* C9 as amended.  After analyze(), a readable Python file whose parse     *)
(* raises SyntaxError has exactly one syntax_error issue in all_issues,    *)
(* critical, not fixable, at the reported line and column (1 and 0 when    *)
(* not reported); its other issues are those the line rules and the        *)
(* whole-file patterns give for the same content; a file that parses has   *)
(* no syntax_error issue.                                                  *)
(***************************************************************************)
C9_SyntaxErrorGivesOneSyntaxIssue ==
    Analyzed =>
        \A k \in 1..Len(py_files) :
            LET f == py_files[k]
                mine == IssuesOfFile(f.path)
                syntax == SelectSeq(mine, IsSyntaxIssue)
                lines == SplitLines(f.content)
            IN  f.readable =>
                    /\ f.parse.kind = "syntax" =>
                           /\ Len(syntax) = 1
                           /\ IsReportedFailure(syntax[1], f.parse)
                           /\ SelectSeq(mine, IsNotSyntaxIssue)
                                  = Concat([n \in 1..Len(lines) |->
                                                PyLineIssues(f.path, n, lines[n])])
                                    \o SecurityIssues(f.path, f.content, lines)
                    /\ f.parse.kind = "ok" => syntax = <<>>

\* a file with a syntax error that also has an issue of a line rule, and a
\* file with a syntax error reported without line and column
C9_Witness ==
    /\ Analyzed
    /\ \E k \in 1..Len(py_files) :
           /\ py_files[k].readable
           /\ py_files[k].parse.kind = "syntax"
           /\ Len(IssuesOfFile(py_files[k].path)) >= 2
    /\ \E k \in 1..Len(py_files) :
           /\ py_files[k].readable
           /\ py_files[k].parse.kind = "syntax"
           /\ py_files[k].parse.lineno = None
           /\ IssuesOfFile(py_files[k].path) # <<>>

\* a file that could not be read has no issue in all_issues, and every file
\* that could be read has exactly the issues it has when it is the only
\* file scanned
UnreadableFilesGiveNothing ==
    Analyzed =>
        /\ \A k \in 1..Len(py_files) :
               IssuesOfFile(py_files[k].path)
                   = (IF py_files[k].readable
                      THEN ScanPython(0, <<py_files[k]>>).issues ELSE <<>>)
        /\ \A k \in 1..Len(js_files) :
               IssuesOfFile(js_files[k].path)
                   = (IF js_files[k].readable
                      THEN ScanJavascript(<<js_files[k]>>) ELSE <<>>)

PatternIssuesOfFile(path, pat) ==
    LET Mine(i) == /\ i.file = path
                   /\ i.issue_type = "SECURITY_VULNERABILITY"
                   /\ i.message = <<"Security: ", pat.desc>>
    IN  SelectSeq(result.issues, Mine)

\* line_num is the line the claim reports a match of pat at: the first line
\* that matches on its own, line 1 when no line does
IsFirstMatchingLine(lines, pat, line_num) ==
    IF \E k \in 1..Len(lines) : Search(pat, lines[k])
    THEN /\ line_num \in 1..Len(lines)
         /\ Search(pat, lines[line_num])
         /\ \A j \in 1..(line_num - 1) : ~Search(pat, lines[j])
    ELSE line_num = 1

(***************************************************************************)
(* C11.  After analyze(), for every readable Python file and every         *)
(* whole-file security pattern: if the pattern matches the content of the  *)
(* file, all_issues has exactly one issue of that pattern for the file,    *)
(* with the pattern's severity and fixable flag, column 0, at the first    *)
(* line that matches on its own or at line 1 when none does, a line        *)
(* between 1 and the number of lines; if it does not match, all_issues has *)
(* no issue of that pattern for the file.                                  *)
(***************************************************************************)
C11_OneIssuePerMatchingPattern ==
    Analyzed =>
        \A k \in 1..Len(py_files) : \A n \in 1..Len(SecurityPatterns) :
            LET f == py_files[k]
                pat == SecurityPatterns[n]
                lines == SplitLines(f.content)
                mine == PatternIssuesOfFile(f.path, pat)
            IN  f.readable =>
                    IF Search(pat, f.content)
                    THEN /\ Len(mine) = 1
                         /\ mine[1].severity = pat.severity
                         /\ mine[1].fixable = pat.fixable
                         /\ mine[1].column = 0
                         /\ IsFirstMatchingLine(lines, pat, mine[1].line)
                         /\ mine[1].line \in 1..Len(lines)
                    ELSE mine = <<>>

\* C11 for the files whose parse returns or raises SyntaxError: the scan of
\* such a file reaches the loop over security_patterns
C11_WhenScanReachesThePatterns ==
    (\A k \in 1..Len(py_files) : py_files[k].parse.kind # "error")
        => C11_OneIssuePerMatchingPattern

\* a linter ran and its stdout is JSON in which every finding has the fields
\* the adapter reads
Flake8OutputWellFormed(run) ==
    /\ run.kind = "ran"
    /\ run.stdout.kind = "json"
    /\ ~Flake8Loop(run.stdout.data).raised
EslintOutputWellFormed(run) ==
    /\ run.kind = "ran"
    /\ run.stdout.kind = "json"
    /\ ~EslintLoop(run.stdout.data).raised

\* the number of messages in the file results of an eslint output
RECURSIVE EslintMessageCount(_)
EslintMessageCount(data) ==
    IF data = <<>> THEN 0
    ELSE Len(GetMessages(Head(data))) + EslintMessageCount(Tail(data))

(***************************************************************************)
(* C12.  After analyze(), a linter that ran and returned well-formed JSON  *)
(* has one issue in all_issues for each of its findings (one per flake8    *)
(* item, one per eslint message of each file result), whatever exit status *)
(* it returned.                                                            *)
(***************************************************************************)
C12_EveryFindingTranslated ==
    Analyzed =>
        /\ Flake8OutputWellFormed(flake8_run) =>
               Len(SelectSeq(result.issues, IsFlake8Issue)) = Len(flake8_run.stdout.data)
        /\ EslintOutputWellFormed(eslint_run) =>
               Len(SelectSeq(result.issues, IsEslintIssue))
                   = EslintMessageCount(eslint_run.stdout.data)

\* C12 for the linters that returned an exit status other than 0
C12_WhenExitStatusNotZero ==
    Analyzed =>
        /\ (Flake8OutputWellFormed(flake8_run) /\ flake8_run.returncode # 0) =>
               Len(SelectSeq(result.issues, IsFlake8Issue)) = Len(flake8_run.stdout.data)
        /\ (EslintOutputWellFormed(eslint_run) /\ eslint_run.returncode # 0) =>
               Len(SelectSeq(result.issues, IsEslintIssue))
                   = EslintMessageCount(eslint_run.stdout.data)

\* the line has a loose equality operator: == or != that is not part of a
\* === or a !==
HasLooseOperator(line) ==
    \E k \in 1..(Len(line) - 1) :
        /\ line[k + 1] = "="
        /\ k + 2 <= Len(line) => line[k + 2] # "="
        /\ \/ line[k] = "!"
           \/ /\ line[k] = "="
              /\ k > 1 => line[k - 1] \notin {"=", "!"}

\* the issues of all_issues with this message for line line_num of `path`
LineIssuesOfFile(path, line_num, message) ==
    LET Mine(i) == i.file = path /\ i.line = line_num /\ i.message = message
    IN  SelectSeq(result.issues, Mine)

(***************************************************************************)
(* C13.  After analyze(), for every line of a readable JavaScript or       *)
(* TypeScript file: all_issues has one medium, code_smell, fixable loose   *)
(* equality issue for the line if the line has a == or != that is not part *)
(* of a === or !==, and none otherwise; the var rule and the console rule  *)
(* give their issue for the line whether or not the loose equality rule    *)
(* does.                                                                   *)
(***************************************************************************)
C13_LooseEqualityIffLooseOperator ==
    Analyzed =>
        \A k \in 1..Len(js_files) :
            LET f == js_files[k]
                lines == SplitLines(f.content)
            IN  f.readable =>
                    \A n \in 1..Len(lines) :
                        LET loose == LineIssuesOfFile(f.path, n, <<"Use === instead of ==">>)
                            var == LineIssuesOfFile(f.path, n, <<"Use let/const instead of var">>)
                            console == LineIssuesOfFile(f.path, n,
                                                        <<"Remaining console.log statement">>)
                        IN  /\ IF HasLooseOperator(lines[n])
                               THEN /\ Len(loose) = 1
                                    /\ loose[1].severity = "MEDIUM"
                                    /\ loose[1].issue_type = "CODE_SMELL"
                                    /\ loose[1].fixable
                               ELSE loose = <<>>
                            /\ Len(var) = (IF VarDeclaration(lines[n]) THEN 1 ELSE 0)
                            /\ Len(console) = (IF ConsoleCall(lines[n]) THEN 1 ELSE 0)

\* the three sources of critical issues: the syntax check of scan_python,
\* its eval / exec patterns, and a flake8 finding whose type code starts
\* with F (the k-th issue of the flake8 block is made from the k-th item)
IsPythonSyntaxError(i) == IsPythonIssue(i) /\ i.issue_type = "SYNTAX_ERROR"
IsPythonEvalExec(i) ==
    /\ IsPythonIssue(i)
    /\ i.issue_type = "SECURITY_VULNERABILITY"
    /\ i.message \in {<<"Security: ", "Unsafe eval() usage">>,
                      <<"Security: ", "Unsafe exec() usage">>}
IsFlake8FFinding(i) ==
    \E k \in 1..Len(emitted.flake8) :
        /\ emitted.flake8[k] = i
        /\ flake8_run.stdout.data[k]["type"] # <<>>
        /\ flake8_run.stdout.data[k]["type"][1] = "F"

(***************************************************************************)
(* C14.  After every analyze(), each issue of critical_issues is a Python  *)
(* syntax_error issue, a Python eval() / exec() security issue or a flake8 *)
(* finding whose type code starts with F; no issue of scan_javascript or   *)
(* of the eslint block is critical; and an issue that is in both           *)
(* critical_issues and auto_fixable_issues comes from flake8.              *)
(***************************************************************************)
C14_CriticalOnlyFromThreeSources ==
    Analyzed =>
        /\ \A k \in 1..Len(result.critical_issues) :
               LET i == result.critical_issues[k]
               IN  IsPythonSyntaxError(i) \/ IsPythonEvalExec(i) \/ IsFlake8FFinding(i)
        /\ \A k \in 1..Len(emitted.js) : ~IsCritical(emitted.js[k])
        /\ \A k \in 1..Len(emitted.eslint) : ~IsCritical(emitted.eslint[k])
        /\ \A k \in 1..Len(result.issues) :
               (IsJsIssue(result.issues[k]) \/ IsEslintIssue(result.issues[k]))
                   => ~IsCritical(result.issues[k])
        /\ \A i \in Range(result.critical_issues) \cap Range(result.auto_fixable_issues) :
               IsFlake8Issue(i) /\ IsFlake8FFinding(i)

\* critical_issues has issues of all three sources, one of them also in
\* auto_fixable_issues, while scan_javascript emitted issues and eslint
\* reported an error-level finding
C14_Witness ==
    /\ Analyzed
    /\ \E i \in Range(result.critical_issues) : IsPythonSyntaxError(i)
    /\ \E i \in Range(result.critical_issues) : IsPythonEvalExec(i)
    /\ \E i \in Range(result.critical_issues) :
           IsFlake8FFinding(i) /\ i \in Range(result.auto_fixable_issues)
    /\ emitted.js # <<>>
    /\ \E k \in 1..Len(emitted.eslint) : emitted.eslint[k].severity = "HIGH"

====
